---- MODULE Spec2Model ----
(***************************************************************************)
(* Model of os_parser.py: the spreadsheet-to-JSON converter for the        *)
(* "normative terms" sheet.                                                *)
(*                                                                         *)
(* Python values are tagged records [k |-> kind, v |-> payload]; a string  *)
(* is a sequence of one-character strings, so that str(), isdigit(),       *)
(* len(), strip(), split() and re.sub() are computed, not assumed.         *)
(* The tree under construction is a heap: nodes maps a node id (the index  *)
(* of the row that made it) to its dict; a children list holds ids, so the *)
(* aliasing between the registers and the tree is kept.                    *)
(***************************************************************************)
EXTENDS Integers, Sequences, FiniteSets, TLC

VARIABLES
    pc,             \* position in the program
    rows,           \* content rows read so far (column 1..3 cells and indent)
    nodes,          \* heap of node dicts made by parse_normative_terms
    root_list,      \* result["normativeTerms"] while it is built (node ids)
    current_nodes,  \* the registers 1, 2, 3 and "group" (node id or NoNode)
    note_rows,      \* footnote-section cells read so far
    notes_list,     \* result["notes"] while it is built
    current_note,   \* index into notes_list of current_note, 0 for None
    result,         \* the document returned by parse_excel_to_json / given to clean_data
    given,          \* the object as it was when clean_data was first called on it
    passes,         \* how many times clean_data has run on result
    cell,           \* argument of a stand-alone extract_text_and_notes call
    decoded         \* its return value

vars == <<pc, rows, nodes, root_list, current_nodes, note_rows, notes_list,
          current_note, result, given, passes, cell, decoded>>

(***************************************************************************)
(* Bounds of the model.                                                    *)
(***************************************************************************)
MaxRows == 4
MaxNoteRows == 3
MaxListLen == 2
MaxRuns == 2
MaxPasses == 2
\* rows of a sheet drawn from WideRowSet
MaxWideRows == 3
\* rows of a sheet drawn from DeepRowSet
MaxDeepRows == 5

(***************************************************************************)
(* Python values.                                                          *)
(***************************************************************************)
NBSP == "nbsp"
Whitespace == {" ", NBSP}
DigitChars == <<"0", "1", "2", "3", "4", "5", "6", "7", "8", "9">>
Digits == {DigitChars[i] : i \in 1..10}

PyNone == [k |-> "none", v |-> <<>>]
PyStr(s) == [k |-> "str", v |-> s]
PyInt(n) == [k |-> "int", v |-> <<n>>]
PyList(s) == [k |-> "list", v |-> s]
PyDict(f) == [k |-> "dict", v |-> f]
RichText(runs) == [k |-> "rich", v |-> runs]

IsNone(x) == x.k = "none"

\* bool(x): None, "", 0, [] and {} are falsy
Truthy(x) ==
    CASE x.k = "none" -> FALSE
      [] x.k = "str"  -> Len(x.v) > 0
      [] x.k = "int"  -> x.v[1] # 0
      [] x.k = "list" -> Len(x.v) > 0
      [] x.k = "rich" -> Len(x.v) > 0
      [] x.k = "dict" -> DOMAIN x.v # {}

RECURSIVE IntDigits(_)
IntDigits(n) ==
    IF n < 10 THEN <<DigitChars[n + 1]>>
    ELSE Append(IntDigits(n \div 10), DigitChars[(n % 10) + 1])

\* str(x) for the values a cell holds
PyStrOf(x) ==
    CASE x.k = "str" -> x.v
      [] x.k = "int" -> IntDigits(x.v[1])
      [] x.k = "none" -> <<"N", "o", "n", "e">>

\* str.isdigit(): non-empty and digits only
IsDigit(s) == Len(s) > 0 /\ \A i \in 1..Len(s) : s[i] \in Digits

RECURSIVE LStrip(_)
LStrip(s) == IF s # <<>> /\ Head(s) \in Whitespace THEN LStrip(Tail(s)) ELSE s

RECURSIVE RStrip(_)
RStrip(s) ==
    IF s # <<>> /\ s[Len(s)] \in Whitespace THEN RStrip(SubSeq(s, 1, Len(s) - 1)) ELSE s

\* str.strip()
Strip(s) == LStrip(RStrip(s))

RECURSIVE SplitComma(_)
\* str.split(","): always at least one piece
SplitComma(s) ==
    LET idx == {i \in 1..Len(s) : s[i] = ","} IN
    IF idx = {} THEN <<s>>
    ELSE LET i == CHOOSE j \in idx : \A m \in idx : j <= m IN
         <<SubSeq(s, 1, i - 1)>> \o SplitComma(SubSeq(s, i + 1, Len(s)))

RECURSIVE StrippedNonEmpty(_)
\* [item.strip() for item in pieces if item.strip()]
StrippedNonEmpty(pieces) ==
    IF pieces = <<>> THEN <<>>
    ELSE LET h == Strip(Head(pieces)) IN
         (IF h # <<>> THEN <<h>> ELSE <<>>) \o StrippedNonEmpty(Tail(pieces))

(***************************************************************************)
(* extract_text_and_notes.  A cell value is None, a str, a number or a     *)
(* CellRichText: a sequence of parts, each a bare str (font "absent") or a *)
(* TextBlock whose font.vertAlign is "superscript" or something else.      *)
(***************************************************************************)
Part(font, text) == [font |-> font, text |-> text]

RECURSIVE TermOfParts(_)
TermOfParts(parts) ==
    IF parts = <<>> THEN <<>>
    ELSE (IF Head(parts).font # "superscript" THEN Head(parts).text ELSE <<>>)
         \o TermOfParts(Tail(parts))

RECURSIVE LinksStrOfParts(_)
LinksStrOfParts(parts) ==
    IF parts = <<>> THEN <<>>
    ELSE (IF Head(parts).font = "superscript" THEN Head(parts).text ELSE <<>>)
         \o LinksStrOfParts(Tail(parts))

RECURSIVE NonBlankUnstripped(_)
\* [item for item in pieces if item.strip()]: the pieces kept as they are
NonBlankUnstripped(pieces) ==
    IF pieces = <<>> THEN <<>>
    ELSE (IF Strip(Head(pieces)) # <<>> THEN <<Head(pieces)>> ELSE <<>>)
         \o NonBlankUnstripped(Tail(pieces))

LinksUnstripped(links_str) == NonBlankUnstripped(SplitComma(links_str))

LinksOf(links_str) == StrippedNonEmpty(SplitComma(links_str))

\* returns the pair (term, links) as a record
extract_text_and_notes(value) ==
    IF value.k = "none" THEN [text |-> PyNone, links |-> <<>>]
    ELSE IF value.k = "rich" THEN
        LET term == TermOfParts(value.v)
            links_str == LinksStrOfParts(value.v)
        IN [text  |-> IF Strip(term) = <<>> THEN PyNone ELSE PyStr(term),
            links |-> LinksOf(links_str)]
    ELSE [text |-> IF ~Truthy(value) THEN PyNone ELSE value, links |-> <<>>]

(***************************************************************************)
(* parse_normative_terms: one loop iteration per action.                   *)
(* A row is the three cells the loop reads: desc (column 1 value), its     *)
(* alignment indent, code (column 2 value) and term (column 3 value).      *)
(***************************************************************************)
Row(desc, indent, code, term) ==
    [desc |-> desc, indent |-> indent, code |-> code, term |-> term]

NoNode == 0

NoRegisters == [l1 |-> NoNode, l2 |-> NoNode, l3 |-> NoNode, group |-> NoNode]

StrList(seq) == PyList([i \in 1..Len(seq) |-> PyStr(seq[i])])

caption_of(r) == extract_text_and_notes(r.desc).text
term_of(r) == extract_text_and_notes(r.term).text

\* description_node: {"value": caption} plus "notes" when there are any
description_node(r) ==
    LET d == extract_text_and_notes(r.desc) IN
    IF d.links # <<>> THEN [value |-> d.text, notes |-> StrList(d.links)]
    ELSE [value |-> d.text]

\* term_node: "value" when term is not None, "notes" when there are any
term_node(r) ==
    LET t == extract_text_and_notes(r.term)
        keys == (IF ~IsNone(t.text) THEN {"value"} ELSE {})
                \cup (IF t.links # <<>> THEN {"notes"} ELSE {})
    IN [key \in keys |-> IF key = "value" THEN t.text ELSE StrList(t.links)]

\* the guard of line 136: a caption and neither term nor code
PresetsChildren(r) == ~Truthy(term_of(r)) /\ ~Truthy(r.code) /\ Truthy(caption_of(r))

\* the dict built for the row before it is classified
NewNode(r) ==
    LET base == [description |-> PyDict(description_node(r)), code |-> r.code]
        withTerm == IF DOMAIN term_node(r) # {}
                    THEN base @@ [term |-> PyDict(term_node(r))] ELSE base
    IN IF PresetsChildren(r) THEN withTerm @@ [children |-> <<>>] ELSE withTerm

\* node["children"] = []
SetEmptyChildren(n) == [children |-> <<>>] @@ n

\* the level test without isdigit()
CodeHasLength(code, n) == Truthy(code) /\ Len(PyStrOf(code)) = n

\* code and str(code).isdigit() and len(str(code)) == n
CodeHasDigits(code, n) ==
    /\ Truthy(code)
    /\ IsDigit(PyStrOf(code))
    /\ Len(PyStrOf(code)) = n

IsSkip(r) ==
    /\ ~Truthy(caption_of(r))
    /\ ~Truthy(r.code)
    /\ (~Truthy(r.term) \/ r.term = PyStr(<<>>))

IsLevel1(r) == CodeHasDigits(r.code, 1)
IsLevel2(r) == CodeHasDigits(r.code, 3)
IsLevel3(r) == CodeHasDigits(r.code, 5) /\ r.indent = 0
\* the group-header test without its test of the code
IsGroupHeaderIgnoresCode(r) == ~Truthy(term_of(r)) /\ Truthy(caption_of(r))
IsGroupHeader(r) == ~Truthy(r.code) /\ ~Truthy(term_of(r)) /\ Truthy(caption_of(r))
\* the leaf test taking every indented row
IsLeafIndentFrom1(r) == r.indent >= 1
IsLeafIndent(r) == r.indent = 2

\* the branch of the if/elif chain that the row takes
RowKind(r) ==
    IF IsSkip(r) THEN "skip"
    ELSE IF IsLevel1(r) THEN "level1"
    ELSE IF IsLevel2(r) THEN "level2"
    ELSE IF IsLevel3(r) THEN "level3"
    ELSE IF IsGroupHeader(r) THEN "group"
    ELSE IF IsLeafIndent(r) THEN "leaf"
    ELSE "unmatched"

\* the registers after a row of each kind made node id
\* the division branch without its reset of the level-2 register
RegistersAfterLevel1KeepsLevel2(cur, id) ==
    [l1 |-> id, l2 |-> cur.l2, l3 |-> NoNode, group |-> NoNode]

RegistersAfterLevel1(cur, id) ==
    [l1 |-> id, l2 |-> NoNode, l3 |-> NoNode, group |-> NoNode]

\* the subdivision branch without its reset of the level-3 register
RegistersAfterLevel2KeepsLevel3(cur, id) ==
    [cur EXCEPT !.l2 = id, !.group = NoNode]

RegistersAfterLevel2(cur, id) ==
    [cur EXCEPT !.l2 = id, !.l3 = NoNode, !.group = NoNode]

RegistersAfterLevel3(cur, id) == [cur EXCEPT !.l3 = id, !.group = NoNode]

RegistersAfterGroup(cur, id) == [cur EXCEPT !.group = id]

\* the leaf branch keeping its node as the level-3 register, as the branch above does
RegistersAfterLeafAsLevel3(cur, id) == [cur EXCEPT !.l3 = id, !.group = NoNode]

RegistersAfterLeaf(cur, id) == cur

\* list.insert(0, x) where the code appends
ListPrepend(list, x) == <<x>> \o list

\* list.append
ListAppend(list, x) == Append(list, x)

\* where a level-2 node goes: current_nodes[1]["children"], else root_list
Level2Parent(cur) == IF cur.l1 # NoNode THEN cur.l1 ELSE NoNode

\* a level-3 node going to the division although a subdivision is open
Level3ParentSkipsLevel2(cur) == IF cur.l1 # NoNode THEN cur.l1 ELSE NoNode

\* where a level-3 node goes
Level3Parent(cur) ==
    IF cur.l2 # NoNode THEN cur.l2
    ELSE IF cur.l1 # NoNode THEN cur.l1
    ELSE NoNode

\* a group header placed as a leaf is: under the level-3 node when one is open
GroupParentUnderLevel3(cur) ==
    IF cur.l3 # NoNode THEN cur.l3
    ELSE IF cur.l2 # NoNode THEN cur.l2
    ELSE IF cur.l1 # NoNode THEN cur.l1
    ELSE NoNode

\* where a group header goes
GroupParent(cur) ==
    IF cur.l2 # NoNode THEN cur.l2
    ELSE IF cur.l1 # NoNode THEN cur.l1
    ELSE NoNode

\* an indent-2 item placed by the coded levels alone, the group header ignored
LeafParentIgnoresGroup(cur) ==
    IF cur.l3 # NoNode THEN cur.l3
    ELSE IF cur.l2 # NoNode THEN cur.l2
    ELSE IF cur.l1 # NoNode THEN cur.l1
    ELSE NoNode

\* where an indent-2 item goes
LeafParent(cur) ==
    IF cur.group # NoNode THEN cur.group
    ELSE IF cur.l3 # NoNode THEN cur.l3
    ELSE IF cur.l2 # NoNode THEN cur.l2
    ELSE IF cur.l1 # NoNode THEN cur.l1
    ELSE NoNode

\* the heap after node id (dict n) is appended to parent's children
\* (parent = NoNode: it goes to root_list and the heap only gains the node)
HeapAttach(ns, parent, id, n) ==
    LET withNode == (id :> n) @@ ns IN
    IF parent = NoNode THEN withNode
    ELSE [withNode EXCEPT ![parent] =
             [children |-> ListAppend(withNode[parent].children, id)] @@ @]

RootAttach(rl, parent, id) == IF parent = NoNode THEN ListAppend(rl, id) ELSE rl

\* the leaf branch without lines 195-196
LazyChildrenOmitted(ns, parent) == ns

\* lines 195-196: the level-3 target gets "children" when it has none
LazyChildren(ns, parent) ==
    IF parent # NoNode /\ "children" \notin DOMAIN ns[parent]
    THEN [ns EXCEPT ![parent] = SetEmptyChildren(@)]
    ELSE ns

(***************************************************************************)
(* The rows the model draws from: at least one row for every branch of     *)
(* the classification, with str and int codes and a rich-text caption.     *)
(***************************************************************************)
sDivision == <<"D", "i", "v", "i", "s", "i", "o", "n">>
sSub == <<"S", "u", "b">>
sItem == <<"I", "t", "e", "m">>
sGroup == <<"G", "r", "o", "u", "p">>
sLeaf == <<"L", "e", "a", "f", " ">>
sTerm == <<"2", "5", " ", "y", "e", "a", "r", "s">>
sRefs == <<"2", ",", " ", "5">>

rowDivision == Row(PyStr(sDivision), 0, PyStr(<<"1">>), PyNone)
rowSub == Row(PyStr(sSub), 0, PyStr(<<"1", "0", "1">>), PyNone)
rowItem == Row(PyStr(sItem), 0, PyStr(<<"1", "0", "1", "0", "1">>), PyStr(sTerm))
rowGroup == Row(PyStr(sGroup), 0, PyNone, PyNone)
rowLeaf == Row(RichText(<<Part("absent", sLeaf), Part("superscript", sRefs)>>),
               2, PyNone, PyInt(10))
rowEmpty == Row(PyNone, 2, PyNone, PyStr(<<>>))
rowIndent1 == Row(PyStr(sLeaf), 1, PyNone, PyStr(sTerm))
rowZeroCode == Row(PyStr(sDivision), 0, PyInt(0), PyStr(sTerm))
rowCaptionIndent2 == Row(PyStr(sGroup), 2, PyNone, PyNone)
rowCodedIndent2 == Row(PyStr(sItem), 2, PyInt(10102), PyStr(sTerm))

RowSet == {rowDivision, rowSub, rowItem, rowGroup, rowLeaf, rowEmpty,
           rowIndent1, rowZeroCode, rowCaptionIndent2, rowCodedIndent2}

(***************************************************************************)
(* Actions of the row loop (lines 94-203).                                 *)
(***************************************************************************)
RowFrame ==
    UNCHANGED <<note_rows, notes_list, current_note, result, given, passes, cell, decoded>>

\* the target's "children" list exists, so the append raises no KeyError
CanAttach(ns, parent) == parent = NoNode \/ "children" \in DOMAIN ns[parent]

\* append node n (id) under parent, or stop with KeyError
AttachOrFail(ns, parent, id, n) ==
    IF CanAttach(ns, parent)
    THEN /\ nodes' = HeapAttach(ns, parent, id, n)
         /\ root_list' = RootAttach(root_list, parent, id)
         /\ pc' = pc
    ELSE /\ pc' = "KeyError"
         /\ UNCHANGED <<nodes, root_list>>

\* an empty row that closes the open group
SkipRowEndsGroupOf(S, max) ==
    /\ pc = "rows" /\ Len(rows) < max
    /\ \E r \in S :
        /\ RowKind(r) = "skip"
        /\ rows' = Append(rows, r)
    /\ current_nodes' = [current_nodes EXCEPT !.group = NoNode]
    /\ UNCHANGED <<pc, nodes, root_list>>
    /\ RowFrame

\* lines 110-112: continue
SkipRowOf(S, max) ==
    /\ pc = "rows" /\ Len(rows) < max
    /\ \E r \in S :
        /\ RowKind(r) = "skip"
        /\ rows' = Append(rows, r)
    /\ UNCHANGED <<pc, nodes, root_list, current_nodes>>
    /\ RowFrame

\* lines 140-147
Level1RowOf(S, max) ==
    /\ pc = "rows" /\ Len(rows) < max
    /\ \E r \in S :
        /\ RowKind(r) = "level1"
        /\ rows' = Append(rows, r)
        /\ current_nodes' = RegistersAfterLevel1(current_nodes, Len(rows) + 1)
        /\ AttachOrFail(nodes, NoNode, Len(rows) + 1, SetEmptyChildren(NewNode(r)))
    /\ RowFrame

\* lines 149-160
Level2RowOf(S, max) ==
    /\ pc = "rows" /\ Len(rows) < max
    /\ \E r \in S :
        /\ RowKind(r) = "level2"
        /\ rows' = Append(rows, r)
        /\ current_nodes' = RegistersAfterLevel2(current_nodes, Len(rows) + 1)
        /\ AttachOrFail(nodes, Level2Parent(current_nodes), Len(rows) + 1,
                        SetEmptyChildren(NewNode(r)))
    /\ RowFrame

\* lines 162-173
Level3RowOf(S, max) ==
    /\ pc = "rows" /\ Len(rows) < max
    /\ \E r \in S :
        /\ RowKind(r) = "level3"
        /\ rows' = Append(rows, r)
        /\ current_nodes' = RegistersAfterLevel3(current_nodes, Len(rows) + 1)
        /\ AttachOrFail(nodes, Level3Parent(current_nodes), Len(rows) + 1, NewNode(r))
    /\ RowFrame

\* lines 175-186
GroupHeaderRowOf(S, max) ==
    /\ pc = "rows" /\ Len(rows) < max
    /\ \E r \in S :
        /\ RowKind(r) = "group"
        /\ rows' = Append(rows, r)
        /\ current_nodes' = RegistersAfterGroup(current_nodes, Len(rows) + 1)
        /\ AttachOrFail(nodes, GroupParent(current_nodes), Len(rows) + 1,
                        SetEmptyChildren(NewNode(r)))
    /\ RowFrame

\* lines 188-203
LeafItemRowOf(S, max) ==
    /\ pc = "rows" /\ Len(rows) < max
    /\ \E r \in S :
        /\ RowKind(r) = "leaf"
        /\ rows' = Append(rows, r)
        /\ current_nodes' = RegistersAfterLeaf(current_nodes, Len(rows) + 1)
        /\ LET parent == LeafParent(current_nodes)
               heap == IF current_nodes.group = NoNode /\ parent = current_nodes.l3
                       THEN LazyChildren(nodes, parent) ELSE nodes
           IN AttachOrFail(heap, parent, Len(rows) + 1, NewNode(r))
    /\ RowFrame

\* a closing else branch that appends the node of an unmatched row to root_list
UnmatchedRowToRootOf(S, max) ==
    /\ pc = "rows" /\ Len(rows) < max
    /\ \E r \in S :
        /\ RowKind(r) = "unmatched"
        /\ rows' = Append(rows, r)
        /\ AttachOrFail(nodes, NoNode, Len(rows) + 1, NewNode(r))
    /\ UNCHANGED current_nodes
    /\ RowFrame

\* no branch of the chain matches: the dict of the row is stored nowhere
UnmatchedRowOf(S, max) ==
    /\ pc = "rows" /\ Len(rows) < max
    /\ \E r \in S :
        /\ RowKind(r) = "unmatched"
        /\ rows' = Append(rows, r)
    /\ UNCHANGED <<pc, nodes, root_list, current_nodes>>
    /\ RowFrame

\* the loop over the rows of RowSet, at most MaxRows of them
SkipRow == SkipRowOf(RowSet, MaxRows)
Level1Row == Level1RowOf(RowSet, MaxRows)
Level2Row == Level2RowOf(RowSet, MaxRows)
Level3Row == Level3RowOf(RowSet, MaxRows)
GroupHeaderRow == GroupHeaderRowOf(RowSet, MaxRows)
LeafItemRow == LeafItemRowOf(RowSet, MaxRows)
UnmatchedRow == UnmatchedRowOf(RowSet, MaxRows)

(***************************************************************************)
(* clean_empty_children (lines 249-256), over the heap.                    *)
(***************************************************************************)
DropChildren(n) == [key \in DOMAIN n \ {"children"} |-> n[key]]

\* the deletion without the walk down the children
CleanTopOnly(ns, id) ==
    IF "children" \in DOMAIN ns[id] /\ ns[id].children = <<>>
    THEN [ns EXCEPT ![id] = DropChildren(@)]
    ELSE ns

RECURSIVE clean_empty_children(_, _)
RECURSIVE CleanChildrenOf(_, _)
clean_empty_children(ns, id) ==
    LET dropped == IF "children" \in DOMAIN ns[id] /\ ns[id].children = <<>>
                   THEN [ns EXCEPT ![id] = DropChildren(@)]
                   ELSE ns
    IN IF "children" \in DOMAIN dropped[id]
       THEN CleanChildrenOf(dropped, dropped[id].children)
       ELSE dropped

\* for child in node["children"]: clean_empty_children(child)
CleanChildrenOf(ns, ids) ==
    IF ids = <<>> THEN ns
    ELSE CleanChildrenOf(clean_empty_children(ns, Head(ids)), Tail(ids))

(***************************************************************************)
(* The document: the heap read as the nested dicts and lists it stands for.*)
(***************************************************************************)
RECURSIVE NodeValue(_, _)
NodeValue(ns, id) ==
    PyDict([key \in DOMAIN ns[id] |->
              IF key = "children"
              THEN PyList([i \in 1..Len(ns[id].children) |->
                             NodeValue(ns, ns[id].children[i])])
              ELSE ns[id][key]])

NoteValue(e) == PyDict([key |-> PyStr(e.key), note |-> PyStr(e.note)])

\* result = {"normativeTerms": [...], "notes": [...]}
ResultOf(ns, rl, nl) ==
    PyDict([normativeTerms |-> PyList([i \in 1..Len(rl) |-> NodeValue(ns, rl[i])]),
            notes |-> PyList([i \in 1..Len(nl) |-> NoteValue(nl[i])])])

Empty == PyDict(<<>>)

(***************************************************************************)
(* clean_string and clean_data (lines 260-290).                            *)
(***************************************************************************)
RECURSIVE CollapsePairs(_)
\* re.sub(r'[\xa0\s]{2}', ' ', text): two whitespace characters at a time
CollapsePairs(s) ==
    IF s = <<>> THEN <<>>
    ELSE IF Len(s) >= 2 /\ s[1] \in Whitespace /\ s[2] \in Whitespace
         THEN <<" ">> \o CollapsePairs(SubSeq(s, 3, Len(s)))
         ELSE <<Head(s)>> \o CollapsePairs(Tail(s))

RECURSIVE Collapse(_)
\* re.sub(r'[\xa0\s]+', ' ', text)
Collapse(s) ==
    IF s = <<>> THEN <<>>
    ELSE IF Head(s) \in Whitespace
         THEN <<" ">> \o Collapse(LStrip(s))
         ELSE <<Head(s)>> \o Collapse(Tail(s))

clean_string(text) ==
    IF ~Truthy(text) \/ text.k # "str" THEN text
    ELSE PyStr(Strip(Collapse(text.v)))

IsContainer(x) == x.k \in {"dict", "list"}

\* the last elif of the dict loop: reached only by values that are neither
\* str nor dict nor list
MarkedForRemoval(value) ==
    /\ value.k # "str"
    /\ ~IsContainer(value)
    /\ (value.k = "none" \/ (value.k = "list" /\ Len(value.v) = 0))

RECURSIVE clean_data(_)
clean_data(obj) ==
    IF obj.k = "dict" THEN
        LET keys_to_remove == {key \in DOMAIN obj.v : MarkedForRemoval(obj.v[key])}
        IN PyDict([key \in DOMAIN obj.v \ keys_to_remove |->
                     IF obj.v[key].k = "str" THEN clean_string(obj.v[key])
                     ELSE IF IsContainer(obj.v[key]) THEN clean_data(obj.v[key])
                     ELSE obj.v[key]])
    ELSE IF obj.k = "list" THEN
        PyList([i \in 1..Len(obj.v) |->
                  IF obj.v[i].k = "str" THEN clean_string(obj.v[i])
                  ELSE IF IsContainer(obj.v[i]) THEN clean_data(obj.v[i])
                  ELSE obj.v[i]])
    ELSE obj

(***************************************************************************)
(* parse_excel_to_json without a footnote marker, then the script's        *)
(* clean_data(result).                                                     *)
(***************************************************************************)
\* the sheet ends: lines 205-207, then lines 74-78 with note_row None
EndOfSheet ==
    /\ pc = "rows"
    /\ nodes' = CleanChildrenOf(nodes, root_list)
    /\ result' = ResultOf(nodes', root_list, <<>>)
    /\ pc' = "parsed"
    /\ UNCHANGED <<rows, root_list, current_nodes, note_rows, notes_list,
                   current_note, given, passes, cell, decoded>>

\* line 298
CleanData ==
    /\ pc = "parsed"
    /\ given' = result
    /\ result' = clean_data(result)
    /\ passes' = passes + 1
    /\ pc' = "cleaned"
    /\ UNCHANGED <<rows, nodes, root_list, current_nodes, note_rows, notes_list,
                   current_note, cell, decoded>>

Init ==
    /\ pc = "rows"
    /\ rows = <<>>
    /\ nodes = <<>>
    /\ root_list = <<>>
    /\ current_nodes = NoRegisters
    /\ note_rows = <<>>
    /\ notes_list = <<>>
    /\ current_note = 0
    /\ result = Empty
    /\ given = Empty
    /\ passes = 0
    /\ cell = PyNone
    /\ decoded = [text |-> PyNone, links |-> <<>>]

Next ==
    \/ SkipRow
    \/ Level1Row
    \/ Level2Row
    \/ Level3Row
    \/ GroupHeaderRow
    \/ LeafItemRow
    \/ UnmatchedRow
    \/ EndOfSheet
    \/ CleanData

Spec == Init /\ [][Next]_vars

(***************************************************************************)
(* parse_notes (lines 210-246): one loop iteration per action.             *)
(***************************************************************************)
\* text = str(cell.value).strip(); text = re.sub(...).strip()
NoteText(value) == Strip(Collapse(Strip(PyStrOf(value))))

RECURSIVE LeadingDigits(_)
\* re.match(r'^\d+', text): the leading digit run, empty when there is no match
LeadingDigits(s) ==
    IF s # <<>> /\ Head(s) \in Digits THEN <<Head(s)>> \o LeadingDigits(Tail(s))
    ELSE <<>>

\* text[len(key):].strip()
NoteRemainder(text) == Strip(SubSeq(text, Len(LeadingDigits(text)) + 1, Len(text)))

\* the branch a footnote-section cell takes
NoteKind(value) ==
    IF ~Truthy(value) THEN "empty"
    ELSE IF NoteText(value) = <<>> THEN "blank"
    ELSE IF LeadingDigits(NoteText(value)) # <<>> THEN "new"
    ELSE "text"

nA == PyStr(<<"1", " ", "a">>)
nB == PyStr(<<" ", "b", NBSP, " ", "c">>)
nC == PyStr(<<"2", "3", "d", " ">>)
nD == PyStr(<<NBSP, "5", " ">>)
nBlank == PyStr(<<" ", NBSP>>)
nZero == PyInt(0)
nFour == PyInt(4)

NoteCells == {PyNone, PyStr(<<>>), nA, nB, nC, nD, nBlank, nZero, nFour}

NoteFrame == UNCHANGED <<pc, rows, nodes, root_list, current_nodes, result, given,
                         passes, cell, decoded>>

\* the marker row ends the content rows: lines 205-207 run, then line 76
MarkerRow ==
    /\ pc = "rows"
    /\ nodes' = CleanChildrenOf(nodes, root_list)
    /\ pc' = "notes"
    /\ UNCHANGED <<rows, root_list, current_nodes, note_rows, notes_list,
                   current_note, result, given, passes, cell, decoded>>

\* lines 221-222 and 228-229: continue
SkipNoteRow ==
    /\ pc = "notes" /\ Len(note_rows) < MaxNoteRows
    /\ \E c \in NoteCells :
        /\ NoteKind(c) \in {"empty", "blank"}
        /\ note_rows' = Append(note_rows, c)
    /\ UNCHANGED <<notes_list, current_note>>
    /\ NoteFrame

\* lines 234-242
NewNoteRow ==
    /\ pc = "notes" /\ Len(note_rows) < MaxNoteRows
    /\ \E c \in NoteCells :
        /\ NoteKind(c) = "new"
        /\ note_rows' = Append(note_rows, c)
        /\ notes_list' = ListAppend(notes_list,
                                    [key  |-> LeadingDigits(NoteText(c)),
                                     note |-> NoteRemainder(NoteText(c))])
        /\ current_note' = Len(notes_list) + 1
    /\ NoteFrame

\* lines 243-246
ContinueNoteRow ==
    /\ pc = "notes" /\ Len(note_rows) < MaxNoteRows
    /\ current_note # 0
    /\ \E c \in NoteCells :
        /\ NoteKind(c) = "text"
        /\ note_rows' = Append(note_rows, c)
        /\ notes_list' = [notes_list EXCEPT ![current_note].note =
                              @ \o <<" ">> \o NoteText(c)]
    /\ UNCHANGED current_note
    /\ NoteFrame

\* a row without a leading digit that starts an entry of its own when there is
\* no current note
DropNoteRowStartsEntry ==
    /\ pc = "notes" /\ Len(note_rows) < MaxNoteRows
    /\ current_note = 0
    /\ \E c \in NoteCells :
        /\ NoteKind(c) = "text"
        /\ note_rows' = Append(note_rows, c)
        /\ notes_list' = ListAppend(notes_list, [key |-> <<>>, note |-> NoteText(c)])
        /\ current_note' = Len(notes_list) + 1
    /\ NoteFrame

\* neither branch: the row starts with no digit and there is no current note
DropNoteRow ==
    /\ pc = "notes" /\ Len(note_rows) < MaxNoteRows
    /\ current_note = 0
    /\ \E c \in NoteCells :
        /\ NoteKind(c) = "text"
        /\ note_rows' = Append(note_rows, c)
    /\ UNCHANGED <<notes_list, current_note>>
    /\ NoteFrame

\* the sheet ends: line 78
EndOfNotes ==
    /\ pc = "notes"
    /\ result' = ResultOf(nodes, root_list, notes_list)
    /\ pc' = "parsed"
    /\ UNCHANGED <<rows, nodes, root_list, current_nodes, note_rows, notes_list,
                   current_note, given, passes, cell, decoded>>

NextNotes ==
    \/ MarkerRow
    \/ SkipNoteRow
    \/ NewNoteRow
    \/ ContinueNoteRow
    \/ DropNoteRow
    \/ EndOfNotes
    \/ EndOfSheet
    \/ CleanData

\* a sheet whose marker row follows the header at once, then its footnote rows,
\* or a sheet that ends there with no marker row
SpecNotes == Init /\ [][NextNotes]_vars

(***************************************************************************)
(* clean_data as a function of any object: the documents the model draws   *)
(* from are dicts and lists nested two and three deep over a few leaves.   *)
(***************************************************************************)
sSpaced == <<" ", "a", " ", NBSP, " ", "b", NBSP>>

Leaves == {PyNone, PyInt(3), PyStr(<<>>), PyStr(sSpaced)}

Keys == {"x", "y"}

ListsOver(V) == UNION {[1..n -> V] : n \in 0..MaxListLen}
DictsOver(V) == UNION {[K -> V] : K \in SUBSET Keys}

Val1 == Leaves \cup {PyList(l) : l \in ListsOver(Leaves)}
               \cup {PyDict(d) : d \in DictsOver(Leaves)}

Wrapped == {PyList(<<v>>) : v \in Val1} \cup {PyDict([x |-> v]) : v \in Val1}

Docs == {PyDict(d) : d \in DictsOver(Val1)}
        \cup {PyDict([x |-> w]) : w \in Wrapped}
        \cup {PyList(<<w>>) : w \in Wrapped}

InitClean ==
    /\ pc = "parsed"
    /\ result \in Docs
    /\ given = Empty
    /\ rows = <<>>
    /\ nodes = <<>>
    /\ root_list = <<>>
    /\ current_nodes = NoRegisters
    /\ note_rows = <<>>
    /\ notes_list = <<>>
    /\ current_note = 0
    /\ passes = 0
    /\ cell = PyNone
    /\ decoded = [text |-> PyNone, links |-> <<>>]

\* clean_data called once more on the object it has already cleaned
CleanDataAgain ==
    /\ pc = "cleaned"
    /\ passes < MaxPasses
    /\ result' = clean_data(result)
    /\ passes' = passes + 1
    /\ UNCHANGED <<pc, rows, nodes, root_list, current_nodes, note_rows, notes_list,
                   current_note, given, cell, decoded>>

NextClean == CleanData \/ CleanDataAgain

SpecClean == InitClean /\ [][NextClean]_vars

(***************************************************************************)
(* extract_text_and_notes as a function of any cell value.                 *)
(***************************************************************************)
sSrok == <<"s", "r", "o", "k">>

PartTexts == {sSrok, sRefs, <<" ">>, <<"2", ",">>, <<"2">>, <<",", NBSP>>}
Fonts == {"absent", "baseline", "superscript"}
Parts == {Part(f, t) : f \in Fonts, t \in PartTexts}

CellValues ==
    {PyNone, PyStr(<<>>), PyStr(sSrok), PyInt(0), PyInt(25)}
    \cup {RichText(ps) : ps \in UNION {[1..n -> Parts] : n \in 0..MaxRuns}}

InitCell ==
    /\ pc = "cell"
    /\ cell \in CellValues
    /\ decoded = [text |-> PyNone, links |-> <<>>]
    /\ rows = <<>>
    /\ nodes = <<>>
    /\ root_list = <<>>
    /\ current_nodes = NoRegisters
    /\ note_rows = <<>>
    /\ notes_list = <<>>
    /\ current_note = 0
    /\ result = Empty
    /\ given = Empty
    /\ passes = 0

ExtractCell ==
    /\ pc = "cell"
    /\ decoded' = extract_text_and_notes(cell)
    /\ pc' = "decoded"
    /\ UNCHANGED <<rows, nodes, root_list, current_nodes, note_rows, notes_list,
                   current_note, result, given, passes, cell>>

NextCell == ExtractCell

SpecCell == InitCell /\ [][NextCell]_vars

(***************************************************************************)
(* The row loop over a wider choice of row shapes: every indent from 0 to  *)
(* 3, codes that are not numbers, a code of two digits, and each           *)
(* combination of caption and term at indent 1.                            *)
(***************************************************************************)
sAlpha == <<"1", "a">>
sLetter == <<"a">>
sTwoDigits == <<"1", "2">>

\* indent 3, caption and term, no code
rowIndent3 == Row(PyStr(sLeaf), 3, PyNone, PyStr(sTerm))
\* indent 1 and no code: caption only, term only, neither
rowIndent1Caption == Row(PyStr(sGroup), 1, PyNone, PyNone)
rowIndent1Term == Row(PyNone, 1, PyNone, PyStr(sTerm))
rowIndent1Empty == Row(PyNone, 1, PyNone, PyNone)
\* a code that is not a number
rowAlphaCaption == Row(PyStr(sGroup), 0, PyStr(sLetter), PyNone)
rowAlphaIndent0 == Row(PyStr(sItem), 0, PyStr(sLetter), PyStr(sTerm))
rowAlphaIndent2 == Row(PyStr(sItem), 2, PyStr(sAlpha), PyStr(sTerm))
rowAlphaCaptionIndent2 == Row(PyStr(sGroup), 2, PyStr(sAlpha), PyNone)
\* a numeric code of two digits at indent 2
rowTwoDigits == Row(PyStr(sItem), 2, PyStr(sTwoDigits), PyStr(sTerm))

WideRowSet == {rowDivision, rowSub, rowItem, rowGroup, rowLeaf, rowEmpty,
               rowIndent1, rowIndent3, rowIndent1Caption, rowIndent1Term,
               rowIndent1Empty, rowAlphaCaption, rowAlphaIndent0,
               rowAlphaIndent2, rowAlphaCaptionIndent2, rowTwoDigits}

WideSkipRow == SkipRowOf(WideRowSet, MaxWideRows)
WideLevel1Row == Level1RowOf(WideRowSet, MaxWideRows)
WideLevel2Row == Level2RowOf(WideRowSet, MaxWideRows)
WideLevel3Row == Level3RowOf(WideRowSet, MaxWideRows)
WideGroupHeaderRow == GroupHeaderRowOf(WideRowSet, MaxWideRows)
WideLeafItemRow == LeafItemRowOf(WideRowSet, MaxWideRows)
WideUnmatchedRow == UnmatchedRowOf(WideRowSet, MaxWideRows)

NextRows ==
    \/ WideSkipRow
    \/ WideLevel1Row
    \/ WideLevel2Row
    \/ WideLevel3Row
    \/ WideGroupHeaderRow
    \/ WideLeafItemRow
    \/ WideUnmatchedRow
    \/ EndOfSheet

SpecRows == Init /\ [][NextRows]_vars

(***************************************************************************)
(* The row loop over longer sheets of the five rows that make nodes, so    *)
(* that a sheet has more rows than the hierarchy has levels.               *)
(***************************************************************************)
DeepRowSet == {rowDivision, rowSub, rowItem, rowGroup, rowLeaf}

DeepLevel1Row == Level1RowOf(DeepRowSet, MaxDeepRows)
DeepLevel2Row == Level2RowOf(DeepRowSet, MaxDeepRows)
DeepLevel3Row == Level3RowOf(DeepRowSet, MaxDeepRows)
DeepGroupHeaderRow == GroupHeaderRowOf(DeepRowSet, MaxDeepRows)
DeepLeafItemRow == LeafItemRowOf(DeepRowSet, MaxDeepRows)

NextDeep ==
    \/ DeepLevel1Row
    \/ DeepLevel2Row
    \/ DeepLevel3Row
    \/ DeepGroupHeaderRow
    \/ DeepLeafItemRow
    \/ EndOfSheet

SpecDeep == Init /\ [][NextDeep]_vars

(***************************************************************************)
(* Properties.                                                             *)
(***************************************************************************)
NodeIds == DOMAIN nodes

\* the rows for which one of the five node-making branches ran
MadeNode == {i \in 1..Len(rows) :
                RowKind(rows[i]) \in {"level1", "level2", "level3", "group", "leaf"}}

ChildrenOf(id) == IF "children" \in DOMAIN nodes[id] THEN nodes[id].children ELSE <<>>

\* how often id occurs in a sequence
CountIn(seq, id) == Cardinality({i \in 1..Len(seq) : seq[i] = id})

\* how often id occurs in the root list and all children lists together
Occurrences(id) ==
    LET holders == {h \in NodeIds : CountIn(ChildrenOf(h), id) > 0}
    IN CountIn(root_list, id)
       + (IF holders = {} THEN 0
          ELSE IF Cardinality(holders) = 1
               THEN CountIn(ChildrenOf(CHOOSE h \in holders : TRUE), id)
               ELSE 2)

RowOrdered(seq) == \A i, j \in 1..Len(seq) : i < j => seq[i] < seq[j]

RECURSIVE ReachableFrom(_, _)
\* the ids found by walking down from the ids in seq, at most depth levels
ReachableFrom(seq, depth) ==
    LET here == {seq[i] : i \in 1..Len(seq)} IN
    IF depth = 0 THEN here
    ELSE here \cup UNION {ReachableFrom(ChildrenOf(id), depth - 1) : id \in here}

InForest == ReachableFrom(root_list, Len(rows))

\* C1: every node made by the row loop occurs exactly once, in exactly one
\* sequence (the root list or one node's children); none is duplicated, none is
\* left out of the forest, no sequence refers to a node that was not made, and
\* every sequence is in increasing row order.
C1_EveryNodeOnceInRowOrder ==
    /\ NodeIds = MadeNode
    /\ \A id \in NodeIds : Occurrences(id) = 1
    /\ InForest = NodeIds
    /\ RowOrdered(root_list)
    /\ \A id \in NodeIds : RowOrdered(ChildrenOf(id))

\* a finished parse of four rows with two roots, a nested node and a row that
\* made no node
C1_Witness ==
    /\ pc = "parsed"
    /\ Len(rows) = 4
    /\ Len(root_list) = 2
    /\ \E id \in NodeIds : Len(ChildrenOf(id)) = 1
    /\ Cardinality(NodeIds) = 3

\* C2: once parse_normative_terms has returned, no node of the output forest
\* has a "children" field that is an empty list.
C2_NoEmptyChildren ==
    pc \in {"parsed", "cleaned"} =>
        \A id \in InForest :
            "children" \in DOMAIN nodes[id] => nodes[id].children # <<>>

\* a finished parse in which a nested subdivision or group header lost its
\* empty children list while its parent kept a non-empty one
C2_Witness ==
    /\ pc = "parsed"
    /\ \E id \in NodeIds :
        /\ RowKind(rows[id]) \in {"level2", "group"}
        /\ "children" \notin DOMAIN nodes[id]
        /\ \E parent \in NodeIds : CountIn(ChildrenOf(parent), id) = 1

\* C5: a "children" field is only ever on a node made by the division,
\* subdivision, group-code-item or group-header branch; a node made by the
\* leaf-item branch never has one.
C5_ChildrenOnlyOnStructuralNodes ==
    \A id \in NodeIds :
        /\ "children" \in DOMAIN nodes[id] =>
              RowKind(rows[id]) \in {"level1", "level2", "level3", "group"}
        /\ RowKind(rows[id]) = "leaf" => "children" \notin DOMAIN nodes[id]

\* a finished parse with a leaf under a group-code item and a later leaf row
C5_Witness ==
    /\ pc = "parsed"
    /\ \E item, leaf1, leaf2 \in NodeIds :
        /\ RowKind(rows[item]) = "level3"
        /\ RowKind(rows[leaf1]) = "leaf"
        /\ RowKind(rows[leaf2]) = "leaf"
        /\ ChildrenOf(item) = <<leaf1, leaf2>>

\* the code cell holds digits only: a digit string, or a number without sign
\* or fraction
NumericCode(code) == code.k = "int" \/ (code.k = "str" /\ IsDigit(code.v))

DigitCount(code) == Len(PyStrOf(code))

LastRow == rows[Len(rows)]

\* C3: a row with a purely numeric code is a division when the code has 1
\* digit, a subdivision when it has 3, a group-code item when it has 5 and the
\* indent is 0, and none of the three with any other digit count.  The level a
\* row got shows in the register it was stored in.
C3_LevelByDigitCount ==
    (pc = "rows" /\ rows # <<>> /\ NumericCode(LastRow.code)) =>
        /\ DigitCount(LastRow.code) = 1 => current_nodes.l1 = Len(rows)
        /\ DigitCount(LastRow.code) = 3 => current_nodes.l2 = Len(rows)
        /\ (DigitCount(LastRow.code) = 5 /\ LastRow.indent = 0) =>
              current_nodes.l3 = Len(rows)
        /\ DigitCount(LastRow.code) \notin {1, 3, 5} =>
              Len(rows) \notin {current_nodes.l1, current_nodes.l2, current_nodes.l3}

\* the cell is empty: None or the empty string
Absent(value) == value.k = "none" \/ (value.k = "str" /\ value.v = <<>>)

\* no code, no term, a caption
HeaderShaped(r) == Absent(r.code) /\ Absent(r.term) /\ Truthy(caption_of(r))

\* an indent-2 row that is not empty, is no division or subdivision by its code
\* and has a code or a term, so that it is no group header either
ItemShaped(r) ==
    /\ r.indent = 2
    /\ ~CodeHasDigits(r.code, 1)
    /\ ~CodeHasDigits(r.code, 3)
    /\ (Truthy(r.code) \/ Truthy(term_of(r)))

\* C4 as stated: a header-shaped row followed by any two rows with indent 2 has
\* exactly those two rows' nodes as its children.
C4_AnyTwoIndent2Rows ==
    \A i \in 1..Len(rows) :
        (/\ pc = "rows"
         /\ Len(rows) = i + 2
         /\ HeaderShaped(rows[i])
         /\ rows[i + 1].indent = 2
         /\ rows[i + 2].indent = 2)
        => /\ {i, i + 1, i + 2} \subseteq NodeIds
           /\ ChildrenOf(i) = <<i + 1, i + 2>>

\* C4, amended: in any builder state, a header-shaped row followed by two
\* indent-2 rows that the leaf-item branch takes has, once those two rows are
\* processed, exactly their nodes as its children, in row order.
C4_GroupHeaderChildren ==
    \A i \in 1..Len(rows) :
        (/\ pc = "rows"
         /\ Len(rows) = i + 2
         /\ HeaderShaped(rows[i])
         /\ ItemShaped(rows[i + 1])
         /\ ItemShaped(rows[i + 2]))
        => /\ {i, i + 1, i + 2} \subseteq NodeIds
           /\ ChildrenOf(i) = <<i + 1, i + 2>>
           /\ current_nodes.group = i

\* a header under an open group-code item, followed by two leaf rows
C4_Witness ==
    /\ pc = "rows"
    /\ Len(rows) = 4
    /\ RowKind(rows[1]) = "level3"
    /\ HeaderShaped(rows[2])
    /\ ItemShaped(rows[3])
    /\ ItemShaped(rows[4])
    /\ ChildrenOf(2) = <<3, 4>>
    /\ current_nodes.l3 = 1

\* the document the three-row sheet Division / Sub / Item is to give
C6_Item ==
    PyDict([description |-> PyDict([value |-> PyStr(sItem)]),
            code |-> PyStr(<<"1", "0", "1", "0", "1">>),
            term |-> PyDict([value |-> PyStr(sTerm)])])

C6_Sub ==
    PyDict([description |-> PyDict([value |-> PyStr(sSub)]),
            code |-> PyStr(<<"1", "0", "1">>),
            children |-> PyList(<<C6_Item>>)])

C6_Division ==
    PyDict([description |-> PyDict([value |-> PyStr(sDivision)]),
            code |-> PyStr(<<"1">>),
            children |-> PyList(<<C6_Sub>>)])

C6_Document ==
    PyDict([normativeTerms |-> PyList(<<C6_Division>>), notes |-> PyList(<<>>)])

RECURSIVE RowTexts(_)
RowTexts(cells) ==
    IF cells = <<>> THEN <<>>
    ELSE (IF IsNone(Head(cells)) \/ NoteText(Head(cells)) = <<>> THEN <<>>
          ELSE <<NoteText(Head(cells))>>)
         \o RowTexts(Tail(cells))

DigitLed(text) == text # <<>> /\ Head(text) \in Digits

RECURSIVE Continuation(_)
\* one space plus the text, for every row up to the next digit-led one
Continuation(texts) ==
    IF texts = <<>> \/ DigitLed(Head(texts)) THEN <<>>
    ELSE <<" ">> \o Head(texts) \o Continuation(Tail(texts))

RECURSIVE MergedNotes(_)
\* one entry per digit-led text, extended by the texts that follow it
MergedNotes(texts) ==
    IF texts = <<>> THEN <<>>
    ELSE IF DigitLed(Head(texts))
         THEN <<[key  |-> LeadingDigits(Head(texts)),
                 note |-> NoteRemainder(Head(texts)) \o Continuation(Tail(texts))]>>
              \o MergedNotes(Tail(texts))
         ELSE MergedNotes(Tail(texts))

\* C7: parse_notes gives one entry per non-empty row that starts with a digit,
\* in row order, its key the leading digit run and its note the trimmed
\* remainder followed by one space plus the text of every following non-empty
\* row up to the next digit-led row.
C7_NotesMerged ==
    pc = "notes" => notes_list = MergedNotes(RowTexts(note_rows))

\* the same for sections in which no cell holds the number 0
C7_NotesMergedWithoutZeroCells ==
    (pc = "notes" /\ \A i \in 1..Len(note_rows) : note_rows[i] # PyInt(0)) =>
        notes_list = MergedNotes(RowTexts(note_rows))

\* no row read so far has a text that starts with a digit
NoDigitLedRow(cells) ==
    \A i \in 1..Len(RowTexts(cells)) : ~DigitLed(RowTexts(cells)[i])

\* C19: a footnote row that does not start with a digit and comes before the
\* first digit-led row makes no entry and adds to none: as long as no
\* digit-led row has been read the list of notes is empty and there is no
\* current note.  A sheet that ends without a marker row never runs
\* parse_notes, and its "notes" is the empty list.
C19_LeadingRowsDropped ==
    [][/\ (pc' = "notes" /\ NoDigitLedRow(note_rows')) =>
              (notes_list' = <<>> /\ current_note' = 0)
       /\ (pc = "rows" /\ pc' = "parsed") =>
              /\ note_rows' = <<>>
              /\ notes_list' = <<>>
              /\ result'.v.notes = PyList(<<>>)]_vars

\* a row without a leading digit, then "1 a": the only entry is that of the
\* second row and holds nothing of the first
C19_Witness ==
    /\ pc = "notes"
    /\ Len(note_rows) = 2
    /\ NoteKind(note_rows[1]) = "text"
    /\ note_rows[2] = nA
    /\ notes_list = <<[key |-> <<"1">>, note |-> <<"a">>]>>
    /\ current_note = 1

(***************************************************************************)
(* Text Normalizer.                                                        *)
(***************************************************************************)
\* C8: clean_data is idempotent: run again on the document it has cleaned, it
\* leaves the document as it is.
C8_CleanDataIdempotent ==
    [][(pc = "cleaned" /\ pc' = "cleaned") => result' = result]_vars

\* the second run has happened on a document that the first run changed and
\* that holds a string inside a list inside a dict
C8_Witness ==
    /\ pc = "cleaned"
    /\ passes = 2
    /\ given # result
    /\ result.k = "dict"
    /\ "x" \in DOMAIN result.v
    /\ result.v["x"] = PyList(<<PyStr(<<"a", " ", "b">>)>>)

RECURSIVE NoNullOrEmptyField(_)
\* no dict anywhere in x has a field that is None or an empty list
NoNullOrEmptyField(x) ==
    IF x.k = "dict" THEN
        \A key \in DOMAIN x.v :
            /\ x.v[key].k # "none"
            /\ ~(x.v[key].k = "list" /\ Len(x.v[key].v) = 0)
            /\ NoNullOrEmptyField(x.v[key])
    ELSE IF x.k = "list" THEN
        \A i \in 1..Len(x.v) : NoNullOrEmptyField(x.v[i])
    ELSE TRUE

\* C9: after clean_data no dict of the document, at any depth, has a field
\* whose value is None or an empty list.
C9_NoNullOrEmptyFields == pc = "cleaned" => NoNullOrEmptyField(result)

(***************************************************************************)
(* Cell Decoder.                                                           *)
(***************************************************************************)
RECURSIVE RunsJoined(_, _, _)
\* the texts of the first n parts that are (sup) or are not superscript, joined
RunsJoined(parts, n, sup) ==
    IF n = 0 THEN <<>>
    ELSE RunsJoined(parts, n - 1, sup)
         \o (IF (parts[n].font = "superscript") = sup THEN parts[n].text ELSE <<>>)

\* s without its leading and trailing whitespace
Trimmed(s) ==
    LET solid == {i \in 1..Len(s) : s[i] \notin Whitespace} IN
    IF solid = {} THEN <<>>
    ELSE SubSeq(s, CHOOSE i \in solid : \A j \in solid : i <= j,
                   CHOOSE i \in solid : \A j \in solid : j <= i)

\* the comma-separated pieces of s, trimmed, the empty ones left out, in order
CommaPieces(s) ==
    LET bounds == {0, Len(s) + 1} \cup {i \in 1..Len(s) : s[i] = ","}
        after(a) == CHOOSE b \in bounds : b > a /\ \A c \in bounds : c > a => b <= c
        piece(a) == Trimmed(SubSeq(s, a + 1, after(a) - 1))
        starts == {a \in bounds \ {Len(s) + 1} : piece(a) # <<>>}
        nth(i) == CHOOSE a \in starts : Cardinality({b \in starts : b < a}) = i - 1
    IN [i \in 1..Cardinality(starts) |-> piece(nth(i))]

\* C10: for a rich-text cell the text is the runs not marked superscript joined
\* in run order (None when that is blank) and footnoteRefs are the superscript
\* runs joined, split on commas, each piece trimmed, empty pieces left out,
\* duplicates kept; "srok" followed by superscript "2, 5" gives "srok" and
\* ["2", "5"].
C10_RichTextDecoded ==
    (pc = "decoded" /\ cell.k = "rich") =>
        /\ decoded.text =
              (IF Trimmed(RunsJoined(cell.v, Len(cell.v), FALSE)) = <<>> THEN PyNone
               ELSE PyStr(RunsJoined(cell.v, Len(cell.v), FALSE)))
        /\ decoded.links = CommaPieces(RunsJoined(cell.v, Len(cell.v), TRUE))
        /\ cell = RichText(<<Part("absent", sSrok), Part("superscript", sRefs)>>) =>
              decoded = [text |-> PyStr(sSrok), links |-> <<(<<"2">>), (<<"5">>)>>]

\* the plain run "srok" and the superscript run "2, 5" decoded
C10_Witness ==
    /\ pc = "decoded"
    /\ cell = RichText(<<Part("absent", sSrok), Part("superscript", sRefs)>>)
    /\ decoded.text = PyStr(sSrok)
    /\ decoded.links = <<(<<"2">>), (<<"5">>)>>

(***************************************************************************)
(* Row classification.                                                     *)
(***************************************************************************)
\* the row is empty: no caption, no code, no term
SkipShaped(r) == ~Truthy(caption_of(r)) /\ Absent(r.code) /\ Absent(r.term)

\* the code is a number of n digits
Coded(r, n) == NumericCode(r.code) /\ DigitCount(r.code) = n

\* the row is none of: empty, division, subdivision, group-code item, header
CatchAll(r) ==
    /\ ~SkipShaped(r)
    /\ ~Coded(r, 1)
    /\ ~Coded(r, 3)
    /\ ~(Coded(r, 5) /\ r.indent = 0)
    /\ ~HeaderShaped(r)

\* row i made a node that is in the tree once and is held by no register
LeafMade(i) ==
    /\ i \in NodeIds
    /\ Occurrences(i) = 1
    /\ i \notin {current_nodes.l1, current_nodes.l2, current_nodes.l3,
                 current_nodes.group}

\* C11 as stated: every row with indent 2 or more that is none of skip,
\* division, subdivision, group-code item and group header is a leaf item: it
\* makes exactly one node, attached to the tree.
C11_LeafAtIndent2OrMore ==
    pc = "rows" =>
        \A i \in 1..Len(rows) :
            (rows[i].indent >= 2 /\ CatchAll(rows[i])) => LeafMade(i)

\* C11, amended: every row with indent exactly 2 that is none of skip,
\* division, subdivision, group-code item and group header is a leaf item: it
\* makes exactly one node, attached to the tree once and held by no register.
C11_LeafAtIndent2 ==
    pc = "rows" =>
        \A i \in 1..Len(rows) :
            (rows[i].indent = 2 /\ CatchAll(rows[i])) => LeafMade(i)

\* an indent-2 row with a code that is no number and no term, after a
\* division, became a child of the division
C11_Witness ==
    /\ pc = "rows"
    /\ Len(rows) = 2
    /\ rows[2] = rowAlphaCaptionIndent2
    /\ 1 \in NodeIds
    /\ ChildrenOf(1) = <<2>>

(***************************************************************************)
(* One step of the row loop, seen from outside.                            *)
(***************************************************************************)
\* the step processes a row
RowStep == pc = "rows" /\ rows' # rows
NewRow == rows'[Len(rows')]
NewId == Len(rows')

ChildrenIn(ns, id) ==
    IF id \in DOMAIN ns /\ "children" \in DOMAIN ns[id] THEN ns[id].children ELSE <<>>

\* the first register of regs that is set, NoNode when none is
FirstSet(regs) ==
    IF \E i \in 1..Len(regs) : regs[i] # NoNode
    THEN regs[CHOOSE i \in 1..Len(regs) :
                  /\ regs[i] # NoNode
                  /\ \A j \in 1..(i - 1) : regs[j] = NoNode]
    ELSE NoNode

\* the step made a node for its row and appended it to the children of target,
\* or to the root list when target is NoNode, and to no other list
AttachedTo(target) ==
    /\ pc' = "rows"
    /\ DOMAIN nodes' = DOMAIN nodes \cup {NewId}
    /\ root_list' = IF target = NoNode THEN Append(root_list, NewId) ELSE root_list
    /\ \A id \in DOMAIN nodes :
          ChildrenIn(nodes', id) =
              IF id = target THEN Append(ChildrenIn(nodes, id), NewId)
              ELSE ChildrenIn(nodes, id)

\* C12: a leaf-item node is appended to the children of the first set register
\* in the order group, level3, level2, level1, and to the root list when none
\* is set; a level-3 target without a children list gets one first, so the
\* step never fails for lack of a list.
C12_LeafAttachment ==
    [][(RowStep /\ RowKind(NewRow) = "leaf") =>
          AttachedTo(FirstSet(<<current_nodes.group, current_nodes.l3,
                                current_nodes.l2, current_nodes.l1>>))]_vars

\* a leaf row came while a group-code item without children was the level-3
\* register and no group was open: the item now has the leaf as its only child
C12_Witness ==
    /\ pc = "rows"
    /\ Len(rows) >= 2
    /\ RowKind(LastRow) = "leaf"
    /\ current_nodes.group = NoNode
    /\ current_nodes.l3 = Len(rows) - 1
    /\ ChildrenOf(current_nodes.l3) = <<Len(rows)>>

\* row i made no node: nothing in the heap, in no list, in no register
Dropped(i) ==
    /\ i \notin NodeIds
    /\ Occurrences(i) = 0
    /\ i \notin {current_nodes.l1, current_nodes.l2, current_nodes.l3,
                 current_nodes.group}

\* C13 as stated: every row with indent 1 and no code is dropped, whatever
\* its caption and term: it makes no node and is attached nowhere.
C13_Indent1NoCodeDropped ==
    pc = "rows" =>
        \A i \in 1..Len(rows) :
            (rows[i].indent = 1 /\ Absent(rows[i].code)) => Dropped(i)

\* C13, amended: every row with indent 1, no code and a non-empty term
\* matches none of the six rules and is dropped, whatever its caption.
C13_Indent1TermNoCodeDropped ==
    pc = "rows" =>
        \A i \in 1..Len(rows) :
            (rows[i].indent = 1 /\ Absent(rows[i].code) /\ Truthy(term_of(rows[i]))) =>
                (RowKind(rows[i]) = "unmatched" /\ Dropped(i))

\* after a division and a subdivision, a row with indent 1, a term and
\* neither code nor caption left the tree as it was
C13_Witness ==
    /\ pc = "rows"
    /\ Len(rows) = 3
    /\ rows[3] = rowIndent1Term
    /\ NodeIds = {1, 2}
    /\ ChildrenOf(1) = <<2>>
    /\ ChildrenOf(2) = <<>>

\* the code cell holds something that is not a number
NonNumericCode(r) == Truthy(r.code) /\ ~NumericCode(r.code)

\* row i made a node with a children list of its own, as a group header does
HeaderMade(i) == i \in NodeIds /\ "children" \in DOMAIN nodes[i]

\* C14 as stated: a row with a code that is not purely numeric never makes the
\* pass fail, and it is classified by its caption, term and indent: with a
\* caption and no term it is a group header or a leaf item, and in every
\* other case it is a leaf item when its indent is 2.
C14_NonNumericHeaderOrLeaf ==
    /\ pc # "KeyError"
    /\ pc = "rows" =>
          \A i \in 1..Len(rows) :
              NonNumericCode(rows[i]) =>
                  IF Truthy(caption_of(rows[i])) /\ Absent(rows[i].term)
                  THEN HeaderMade(i) \/ LeafMade(i)
                  ELSE rows[i].indent = 2 => LeafMade(i)

\* C14, amended: a row with a code that is not purely numeric never makes the
\* pass fail; it is never a division, subdivision, group-code item or group
\* header: it is a leaf item when its indent is 2 and it is dropped otherwise,
\* whatever its caption and term.
C14_NonNumericLeafOrDropped ==
    /\ pc # "KeyError"
    /\ pc = "rows" =>
          \A i \in 1..Len(rows) :
              NonNumericCode(rows[i]) =>
                  IF rows[i].indent = 2
                  THEN LeafMade(i) /\ ~HeaderMade(i)
                  ELSE Dropped(i)

\* after a division, a captioned row with code "a" and no term at indent 0 was
\* dropped and a row with code "1a" at indent 2 became the division's child
C14_Witness ==
    /\ pc = "rows"
    /\ rows = <<rowDivision, rowAlphaCaption, rowAlphaIndent2>>
    /\ NodeIds = {1, 3}
    /\ ChildrenOf(1) = <<3>>
    /\ current_nodes = [l1 |-> 1, l2 |-> NoNode, l3 |-> NoNode, group |-> NoNode]

\* C15: a row that yields no node, because it is empty (no caption, no code, a
\* term cell that is empty or "") or because no rule matches it, leaves the
\* forest built so far and the four registers as they were.
C15_NoNodeNoEffect ==
    [][(RowStep /\ (SkipShaped(NewRow) \/ RowKind(NewRow) = "unmatched")) =>
          /\ pc' = "rows"
          /\ UNCHANGED <<nodes, root_list, current_nodes>>]_vars

\* a division and a group header under it, then a row that matches no rule:
\* the two nodes and the two registers are as they were before the third row
C15_Witness ==
    /\ pc = "rows"
    /\ Len(rows) = 3
    /\ RowKind(rows[3]) = "unmatched"
    /\ NodeIds = {1, 2}
    /\ root_list = <<1>>
    /\ ChildrenOf(1) = <<2>>
    /\ current_nodes = [l1 |-> 1, l2 |-> NoNode, l3 |-> NoNode, group |-> 2]

(***************************************************************************)
(* Registers and attachment.                                               *)
(***************************************************************************)
\* C16: a division row sets level1 to its node and resets level2, level3 and
\* group; a subdivision row sets level2, resets level3 and group and keeps
\* level1; a group-code-item row sets level3, resets group and keeps level1
\* and level2.
C16_RegisterResets ==
    [][RowStep =>
          /\ RowKind(NewRow) = "level1" =>
                /\ current_nodes'.l1 = NewId
                /\ current_nodes'.l2 = NoNode
                /\ current_nodes'.l3 = NoNode
                /\ current_nodes'.group = NoNode
          /\ RowKind(NewRow) = "level2" =>
                /\ current_nodes'.l1 = current_nodes.l1
                /\ current_nodes'.l2 = NewId
                /\ current_nodes'.l3 = NoNode
                /\ current_nodes'.group = NoNode
          /\ RowKind(NewRow) = "level3" =>
                /\ current_nodes'.l1 = current_nodes.l1
                /\ current_nodes'.l2 = current_nodes.l2
                /\ current_nodes'.l3 = NewId
                /\ current_nodes'.group = NoNode]_vars

\* division, group-code item, group header, then a subdivision: level3 and
\* group were set and are reset, level1 is kept
C16_Witness ==
    /\ pc = "rows"
    /\ Len(rows) = 4
    /\ RowKind(rows[1]) = "level1"
    /\ RowKind(rows[2]) = "level3"
    /\ RowKind(rows[3]) = "group"
    /\ RowKind(rows[4]) = "level2"
    /\ current_nodes = [l1 |-> 1, l2 |-> 4, l3 |-> NoNode, group |-> NoNode]

\* C17: a division is appended to the root list; a subdivision to the children
\* of level1 if set, else to the root list; a group-code item and a group
\* header to the children of level2 if set, else of level1 if set, else to the
\* root list.  A group header never goes to the children of level3.
C17_NonLeafAttachment ==
    [][RowStep =>
          /\ RowKind(NewRow) = "level1" => AttachedTo(NoNode)
          /\ RowKind(NewRow) = "level2" => AttachedTo(FirstSet(<<current_nodes.l1>>))
          /\ RowKind(NewRow) \in {"level3", "group"} =>
                AttachedTo(FirstSet(<<current_nodes.l2, current_nodes.l1>>))]_vars

\* division, subdivision, group-code item, group header: the header is the
\* second child of the subdivision, beside the item that is still level3
C17_Witness ==
    /\ pc = "rows"
    /\ Len(rows) = 4
    /\ RowKind(rows[4]) = "group"
    /\ current_nodes = [l1 |-> 1, l2 |-> 2, l3 |-> 3, group |-> 4]
    /\ root_list = <<1>>
    /\ ChildrenOf(1) = <<2>>
    /\ ChildrenOf(2) = <<3, 4>>
    /\ ChildrenOf(3) = <<>>

\* the kind of every row read so far
KindsOf(rs) == [i \in 1..Len(rs) |-> RowKind(rs[i])]

\* the last row of one of the kinds in the sequence ks of kinds, 0 when none
LastOf(ks, kinds) ==
    LET S == {i \in 1..Len(ks) : ks[i] \in kinds}
    IN IF S = {} THEN 0 ELSE CHOOSE i \in S : \A j \in S : j <= i

\* the last row of kinds when no row of closers came after it, else NoNode
OpenSince(ks, kinds, closers) ==
    LET last == LastOf(ks, kinds)
    IN IF last # 0 /\ LastOf(ks, closers) < last THEN last ELSE NoNode

CodedKinds == {"level1", "level2", "level3"}

\* the leaf rows after header row h and before the next division,
\* subdivision, group-code-item or group-header row
GroupSpan(ks, h) ==
    {j \in (h + 1)..Len(ks) :
        /\ ks[j] = "leaf"
        /\ \A k \in (h + 1)..(j - 1) : ks[k] \notin CodedKinds \cup {"group"}}

SeqIsSet(seq, S) ==
    /\ Len(seq) = Cardinality(S)
    /\ {seq[i] : i \in 1..Len(seq)} = S
    /\ RowOrdered(seq)

\* C18: the group register is the last group-header row as long as no
\* division, subdivision or group-code-item row came after it, whatever empty
\* and dropped rows came; the header rows leave level1, level2 and level3 to
\* the coded rows alone; and the children of a header are exactly the leaf
\* rows between it and the next coded or header row, level3 being set or not.
C18_GroupPersists ==
    pc = "rows" =>
        LET ks == KindsOf(rows)
        IN /\ current_nodes.group = OpenSince(ks, {"group"}, CodedKinds)
           /\ current_nodes.l1 = LastOf(ks, {"level1"})
           /\ current_nodes.l2 = OpenSince(ks, {"level2"}, {"level1"})
           /\ current_nodes.l3 = OpenSince(ks, {"level3"}, {"level1", "level2"})
           /\ \A h \in 1..Len(ks) :
                 ks[h] = "group" => SeqIsSet(ChildrenOf(h), GroupSpan(ks, h))

\* a group-code item, a group header, an empty row, a leaf: the leaf is the
\* header's child and not the item's, and the item is still level3
C18_Witness ==
    /\ pc = "rows"
    /\ Len(rows) = 4
    /\ RowKind(rows[1]) = "level3"
    /\ RowKind(rows[2]) = "group"
    /\ RowKind(rows[3]) = "skip"
    /\ RowKind(rows[4]) = "leaf"
    /\ ChildrenOf(2) = <<4>>
    /\ ChildrenOf(1) = <<>>
    /\ current_nodes.l3 = 1
    /\ current_nodes.group = 2

\* the list a register stands for: its node's children, the root list for NoNode
ListOf(reg) == IF reg = NoNode THEN root_list ELSE ChildrenOf(reg)

Holds(list, id) == \E i \in 1..Len(list) : list[i] = id

RECURSIVE AtDepth(_)
\* the nodes d levels down, the roots being at depth 1
AtDepth(d) ==
    IF d = 1 THEN {root_list[i] : i \in 1..Len(root_list)}
    ELSE UNION {{ChildrenOf(p)[i] : i \in 1..Len(ChildrenOf(p))} : p \in AtDepth(d - 1)}

\* C20: after every row each set register is on the current branch: level1 is
\* in the root list, level2 in the children of level1 (the root list when
\* level1 is unset), level3 and group in the children of level2 if set, else
\* of level1 if set, else in the root list.  No node hangs beneath a node from
\* before the most recent division, or from before the most recent
\* subdivision unless it is a subdivision itself, and no node of the forest
\* is more than 4 levels down.
C20_RegisterChain ==
    /\ pc = "rows" =>
          /\ current_nodes.l1 # NoNode => Holds(root_list, current_nodes.l1)
          /\ current_nodes.l2 # NoNode =>
                Holds(ListOf(current_nodes.l1), current_nodes.l2)
          /\ current_nodes.l3 # NoNode =>
                Holds(ListOf(FirstSet(<<current_nodes.l2, current_nodes.l1>>)),
                      current_nodes.l3)
          /\ current_nodes.group # NoNode =>
                Holds(ListOf(FirstSet(<<current_nodes.l2, current_nodes.l1>>)),
                      current_nodes.group)
    /\ \A p \in NodeIds : \A j \in NodeIds :
          Holds(ChildrenOf(p), j) =>
              \A k \in (p + 1)..(j - 1) :
                  /\ RowKind(rows[k]) # "level1"
                  /\ RowKind(rows[k]) = "level2" => RowKind(rows[j]) = "level2"
    /\ AtDepth(5) = {}

\* division, subdivision, group-code item, leaf, group header: all four
\* registers are set, the leaf is 4 levels down and the header is beside the item
C20_Witness ==
    /\ pc = "rows"
    /\ Len(rows) = 5
    /\ current_nodes = [l1 |-> 1, l2 |-> 2, l3 |-> 3, group |-> 5]
    /\ ChildrenOf(2) = <<3, 5>>
    /\ AtDepth(4) = {4}

====
